---- MODULE Spec2Model ----
(***************************************************************************)
(* A model of the mind-map canvas of src/components/MindMapCanvas.tsx:     *)
(* the dual-sided layout (side partition, two hierarchies, mirroring and   *)
(* merge), the render / cleanup life cycle of the scene, the d3-zoom view  *)
(* transform with its gestures and animated transitions, and the PNG       *)
(* export.                                                                 *)
(*                                                                         *)
(* Numbers.  Scales are kept in thousandths (k = 1000 is scale 1),         *)
(* translations in whole pixels, layout depth coordinates in fifths of a   *)
(* pixel (hSpacing = 220 + N/5).  Quotients are floored.                   *)
(***************************************************************************)
EXTENDS Integers, Sequences, FiniteSets

\* ------------------------------------------------------------------ bounds
\* Largest input tree of the layout specification.
MaxNodes == 6
\* Most user commands (wheel steps, drags, presses, resets) and most render
\* passes followed on one mounted canvas.
MaxGestures == 4
MaxPasses == 2
\* Most exportImage calls followed.
MaxExports == 2
\* File reads started and generation calls made by the App.
MaxReads == 2
MaxCalls == 3
\* Largest translation (pixels) followed.
MaxPan == 2000

\* ----------------------------------------------------------------- helpers
Max(a, b) == IF a >= b THEN a ELSE b
Min(a, b) == IF a <= b THEN a ELSE b
Abs(a) == IF a >= 0 THEN a ELSE -a
Range(s) == {s[i] : i \in 1..Len(s)}

\* ------------------------------------------------------------ Tree Model
\* A MindMapNode tree: nodes 1..n, node 1 the root, parent[i] < i, the
\* children of a node ordered by their number.  side[i] is the optional
\* `side` field ("none" when absent); the code reads it on the root's
\* direct children only.
Sides == {"left", "right", "none"}

\* The parent functions and side assignments of the trees with n nodes.
ParentsOfSize(n) ==
    {p \in [1..n -> 0..(n - 1)] : p[1] = 0 /\ \A i \in 2..n : p[i] \in 1..(i - 1)}

SidesFor(n, p) ==
    {s \in [1..n -> Sides] : \A i \in 1..n : p[i] # 1 => s[i] = "none"}

TreesOfSize(n) ==
    UNION {{[n |-> n, parent |-> p, side |-> s] : s \in SidesFor(n, p)} :
              p \in ParentsOfSize(n)}

AllTrees == UNION {TreesOfSize(n) : n \in 1..MaxNodes}

RECURSIVE KidsFrom(_, _, _)
KidsFrom(t, i, j) ==
    IF j > t.n THEN <<>>
    ELSE IF t.parent[j] = i THEN <<j>> \o KidsFrom(t, i, j + 1)
    ELSE KidsFrom(t, i, j + 1)

\* data.children || []
Kids(t, i) == KidsFrom(t, i, 2)

\* -------------------------------------------------------- Layout Engine
\* const totalNodes = d3.hierarchy(data).descendants().length
totalNodes(t) == t.n

\* hSpacing = max(180, 220 + totalNodes / 5), in fifths of a pixel
hSpacing(t) == Max(900, 1100 + totalNodes(t))

CeilHalf(n) == (n + 1) \div 2

\* children.filter(c => c.side === 'left') / (c => c.side !== 'left')
FilterLeft(t, cs) == SelectSeq(cs, LAMBDA c : t.side[c] = "left")
FilterNotLeft(t, cs) == SelectSeq(cs, LAMBDA c : t.side[c] # "left")

\* The balancing rule's condition.
BalanceTrigger(l, r) == Len(l) = 0 /\ Len(r) > 3

\* Mutant of Mid: the half rounded down.
MidFloor(r) == Len(r) \div 2

\* Math.ceil(rightSideNodes.length / 2)
Mid(r) == CeilHalf(Len(r))

\* The side partition: [left |-> leftSideNodes, right |-> rightSideNodes]
SidePartition(t) ==
    LET l == FilterLeft(t, Kids(t, 1))
        r == FilterNotLeft(t, Kids(t, 1))
    IN  IF BalanceTrigger(l, r)
        THEN [left |-> SubSeq(r, 1, Mid(r)), right |-> SubSeq(r, Mid(r) + 1, Len(r))]
        ELSE [left |-> l, right |-> r]

\* One node of a d3 hierarchy: the tree node it wraps, its depth, the id of
\* its parent (0 for the root), the hierarchy it belongs to ("R" or "L") and
\* its depth-axis coordinate y.
HNode(id, depth, par, half) ==
    [id |-> id, depth |-> depth, par |-> par, half |-> half, y |-> 0]

RECURSIVE Wrap(_, _, _, _)
Wrap(ids, depth, par, half) ==
    IF ids = <<>> THEN <<>>
    ELSE <<HNode(Head(ids), depth, par, half)>> \o Wrap(Tail(ids), depth, par, half)

\* node.descendants(): breadth-first order.
RECURSIVE Bfs(_, _, _)
Bfs(t, queue, out) ==
    IF queue = <<>> THEN out
    ELSE LET h == Head(queue)
         IN  Bfs(t, Tail(queue) \o Wrap(Kids(t, h.id), h.depth + 1, h.id, h.half),
                 Append(out, h))

\* d3.hierarchy({ ...data, children: branches }).descendants()
Hierarchy(t, branches, half) ==
    Bfs(t, Wrap(branches, 1, 1, half), <<HNode(1, 0, 0, half)>>)

\* treeLayout(root) with nodeSize([vSpacing, hSpacing]): y = depth * hSpacing.
\* The sibling-axis coordinate x of the tidy tree is kept for the root alone,
\* which nodeSize places at x = 0 (RootAcross); the x of the other nodes
\* depends on d3's packing and is not part of this model.
treeLayout(t, h) == [i \in 1..Len(h) |-> [h[i] EXCEPT !.y = h[i].depth * hSpacing(t)]]

\* const buildTree = (branches) => { root = d3.hierarchy(..); treeLayout(root) }
buildTree(t, branches, half) == treeLayout(t, Hierarchy(t, branches, half))

\* Mutant of Mirror: the left half is left unmirrored.
MirrorNothing(h) == h

\* rootL.descendants().forEach(d => { if (d.depth > 0) d.y = -d.y; })
Mirror(h) == [i \in 1..Len(h) |-> IF h[i].depth > 0 THEN [h[i] EXCEPT !.y = -h[i].y] ELSE h[i]]

\* rootL.descendants().filter(d => d.depth > 0)
NonRoot(h) == SelectSeq(h, LAMBDA d : d.depth > 0)

\* Mutant of MergeNodes: the left hierarchy's root is not filtered out.
MergeNodesUnfiltered(r, l) == r \o l

\* [...rootR.descendants(), ...rootL.descendants().filter(d => d.depth > 0)]
MergeNodes(r, l) == r \o NonRoot(l)

\* node.links(): one link per non-root node, from its parent to it.
Links(h) ==
    LET nr == NonRoot(h)
    IN  [i \in 1..Len(nr) |->
            [source |-> nr[i].par, sdepth |-> nr[i].depth - 1,
             target |-> nr[i].id, tdepth |-> nr[i].depth, half |-> nr[i].half]]

\* Mutant of MergeLinks: the left links are kept only when both ends are
\* below the root.
MergeLinksBothDeep(r, l) ==
    Links(r) \o SelectSeq(Links(l), LAMBDA e : e.sdepth > 0 /\ e.tdepth > 0)

\* [...rootR.links(), ...rootL.links().filter(l => l.source.depth > 0 || l.target.depth > 0)]
MergeLinks(r, l) ==
    Links(r) \o SelectSeq(Links(l), LAMBDA e : e.sdepth > 0 \/ e.tdepth > 0)

\* The sibling-axis coordinate d3.tree gives the root under nodeSize.
RootAcross == 0

\* The locals of one render pass.
Layout(t) ==
    LET p == SidePartition(t)
        rootR == buildTree(t, p.right, "R")
        rootL == Mirror(buildTree(t, p.left, "L"))
    IN  [leftSideNodes |-> p.left, rightSideNodes |-> p.right,
         rootR |-> rootR, rootL |-> rootL,
         originR |-> [along |-> rootR[1].y, across |-> RootAcross],
         originL |-> [along |-> rootL[1].y, across |-> RootAcross],
         allNodes |-> MergeNodes(rootR, rootL),
         allLinks |-> MergeLinks(rootR, rootL)]

NoLayout ==
    [leftSideNodes |-> <<>>, rightSideNodes |-> <<>>, rootR |-> <<>>, rootL |-> <<>>,
     originR |-> [along |-> 0, across |-> 0], originL |-> [along |-> 0, across |-> 0],
     allNodes |-> <<>>, allLinks |-> <<>>]

NoData == [n |-> 0, parent |-> <<>>, side |-> <<>>]


\* The trees the viewport specifications render: a lone root, and a root
\* with a left branch, a right branch and a grandchild.
SampleTrees ==
    { [n |-> 1, parent |-> <<0>>, side |-> <<"none">>],
      [n |-> 4, parent |-> <<0, 1, 1, 2>>,
       side |-> <<"none", "left", "right", "none">>] }

\* --------------------------------------------------- Viewport Controller
\* containerRef.current.clientWidth / clientHeight
ViewportW == 800
ViewportH == 600

\* The point gestures and transitions keep fixed: the centre of the extent.
PX == ViewportW \div 2
PY == ViewportH \div 2

\* .scaleExtent([0.01, 10]), in thousandths
ScaleMin == 10
ScaleMax == 10000

\* d3.zoomIdentity; also the __zoom of an svg element no zoom has touched
Identity == [k |-> 1000, x |-> 0, y |-> 0]

\* A <g> element that has no transform attribute yet.
NoTransform == [k |-> 0, x |-> 0, y |-> 0]

\* d3-zoom's scale(): k = max(scaleExtent[0], min(scaleExtent[1], k))
ClampScale(k) == Max(ScaleMin, Min(ScaleMax, k))

\* g.getBBox() of a rendered scene: the content box in the group's own
\* coordinates.  It depends on text metrics, so a render pass draws it from
\* these: the root pill alone, the 400 x 2000 box of the spec's example
\* (off centre), and a very wide box.
BBoxes ==
    { [x |-> -75, y |-> -28, width |-> 150, height |-> 56],
      [x |-> -100, y |-> -900, width |-> 400, height |-> 2000],
      [x |-> -50000, y |-> -10000, width |-> 100000, height |-> 20000] }

NoBBox == [x |-> 0, y |-> 0, width |-> 0, height |-> 0]

\* Mutant of ClampFit: the upper clamp is missing.
ClampFitBelowOnly(s) == Max(s, 50)

\* Math.min(Math.max(scale, 0.05), 1.0)
ClampFit(s) == Min(Max(s, 50), 1000)

\* scale = 0.9 / Math.max(gBox.width / width, gBox.height / height)
RawFitScale(b) ==
    LET m == Max(b.width * ViewportH, b.height * ViewportW)
    IN  IF m = 0 THEN ScaleMax * 1000 ELSE (900 * ViewportW * ViewportH) \div m

\* const fitScale
fitScale(b) == ClampFit(RawFitScale(b))

\* d3.zoomIdentity.translate(centerX, centerY).scale(fitScale)
FitTransform(b) ==
    [k |-> fitScale(b),
     x |-> PX - ((2 * b.x + b.width) * fitScale(b)) \div 2000,
     y |-> PY - ((2 * b.y + b.height) * fitScale(b)) \div 2000]

\* d3.zoomIdentity.translate(width/2, height/2).scale(0.5)
ResetTransform == [k |-> 500, x |-> ViewportW \div 2, y |-> ViewportH \div 2]

\* Wheel steps 2^delta as num/den, from a flick to the largest the model
\* follows; drags as pixel offsets.
WheelFactors == {<<1, 1000>>, <<4, 1>>, <<1000, 1>>}
DragDeltas == {<<1000, 0>>, <<0, -500>>}

RECURSIVE SqrtIn(_, _, _)
SqrtIn(n, lo, hi) ==
    IF lo >= hi THEN lo
    ELSE LET mid == (lo + hi + 1) \div 2
         IN  IF mid * mid <= n THEN SqrtIn(n, mid, hi) ELSE SqrtIn(n, lo, mid - 1)

\* floor(sqrt(n)) for 0 <= n < 2^31
ISqrt(n) == SqrtIn(n, 0, 46340)

\* d3-zoom's schedule(): the view of a transform, a.invert(p).concat(w / a.k),
\* in units of 100 pixels.
ViewOf(t) ==
    [cx |-> ((PX - t.x) * 10) \div t.k,
     cy |-> ((PY - t.y) * 10) \div t.k,
     w |-> (Max(ViewportW, ViewportH) * 10) \div t.k]

\* d3.interpolateZoom(a, b) with rho = sqrt 2.  Two of its frames are
\* followed.  When both views share their centre the width runs
\* w0 * exp(rho t S): the frame at t = 1/2 has scale sqrt(k0 * k1).  When
\* the centres differ and |w1^2 - w0^2| < rho^4 d^2, the path zooms out to
\* the width w0 * cosh(r0) = sqrt((w0 b0)^2 + w0^2), with
\* w0 b0 = (w1^2 - w0^2 + rho^4 d^2) / (2 rho^2 d), at the point
\* u = w0 b0 / (rho^2 d) along the way: the frame at that peak.
interpolateZoom(a, b) ==
    LET v0 == ViewOf(a)
        v1 == ViewOf(b)
        dx == v1.cx - v0.cx
        dy == v1.cy - v0.cy
        d2 == dx * dx + dy * dy
        d1 == ISqrt(d2)
        dw == v1.w * v1.w - v0.w * v0.w
        wb0 == (dw + 4 * d2) \div (4 * d1)
        wPeak == ISqrt(wb0 * wb0 + v0.w * v0.w)
        kPeak == (Max(ViewportW, ViewportH) * 10) \div wPeak
        kMid == ISqrt(a.k * b.k)
    IN  IF d2 = 0
        THEN {[k |-> kMid,
               x |-> PX - ((PX - a.x) * kMid) \div a.k,
               y |-> PY - ((PY - a.y) * kMid) \div a.k]}
        ELSE IF Abs(dw) < 4 * d2
        THEN {[k |-> kPeak,
               x |-> PX - ((v0.cx + (wb0 * dx) \div (2 * d1)) * kPeak) \div 10,
               y |-> PY - ((v0.cy + (wb0 * dy) \div (2 * d1)) * kPeak) \div 10]}
        ELSE {}

\* The transforms the model follows: a positive scale and a bounded pan.
Followed(t) == t.k >= 1 /\ Abs(t.x) <= MaxPan /\ Abs(t.y) <= MaxPan

NoTrans == [via |-> "none", from |-> Identity, to |-> Identity]

\* svg.transition().duration(..).call(zoom.transform, target): the tween
\* interpolates from the element's __zoom to the target and reports each
\* frame to the listeners of the zoom behaviour it was called on.
Transition(via, from, to) == [via |-> via, from |-> from, to |-> to]

\* Mutant of RemoveAll: nothing is removed.
RemoveNothing(children) == children

\* svg.selectAll("*").remove()
RemoveAll(children) == <<>>

\* svg.append("g") followed by the joins that fill the group
AppendG(children, l) == Append(children, [nodes |-> l.allNodes, links |-> l.allLinks])

\* svg.call(zoomBehavior): selection.on("wheel.zoom", ..) and the other
\* ".zoom" listeners replace the ones bound under the same names.
CallZoom(bound, behaviour) == {behaviour}

\* ------------------------------------------------------- Export Pipeline
\* const padding = 50; const scale = 2
padding == 50
exportScale == 2

\* Mutant of getBBox: the box as it shows on screen, under the group's
\* transform attribute.
getScreenBox(b, gt) ==
    IF gt.k = 0 THEN b
    ELSE [x |-> (b.x * gt.k) \div 1000 + gt.x, y |-> (b.y * gt.k) \div 1000 + gt.y,
          width |-> (b.width * gt.k) \div 1000, height |-> (b.height * gt.k) \div 1000]

\* g.getBBox(): the box of the group's content in the group's own user
\* space; the group's transform attribute gt does not enter.
getBBox(b, gt) == b

\* Lines 28-58: the synchronous part of exportImage, from the box bb that
\* getBBox returned: the size of the clone, the transform put on the
\* clone's group and the size of the canvas.
ExportGeometry(bb) ==
    [width |-> bb.width + padding * 2,
     height |-> bb.height + padding * 2,
     tx |-> -bb.x + padding,
     ty |-> -bb.y + padding,
     canvasW |-> (bb.width + padding * 2) * exportScale,
     canvasH |-> (bb.height + padding * 2) * exportScale]

\* The steps of one export, in the order the code runs them.
SyncSteps == <<"bbox", "clone", "serialize">>
LoadSteps == <<"decode", "composite", "encode", "download">>

\* Mutant of Loaded: the image stays armed after its load handler ran.
LoadedStillArmed(e) == [e EXCEPT !.steps = @ \o LoadSteps]

\* img.onload (lines 63-78) has run for the export e.
Loaded(e) == [e EXCEPT !.pc = "done", !.steps = @ \o LoadSteps]

VARIABLES
    data,        \* the data prop (NoData while unmounted)
    mounted,     \* the component is mounted and its effect has run
    layout,      \* the locals of the last render pass
    scene,       \* the children of the svg element
    handlers,    \* the zoom behaviours whose listeners are bound to the svg
    bbox,        \* the content box of the rendered group
    zoomT,       \* svg.__zoom, the transform d3-zoom stores on the element
    gTransform,  \* the transform attribute of the scene group
    zoom,        \* the React state behind the zoom indicator
    trans,       \* the transition scheduled or running on the svg element
    lastEvent,   \* the last thing that happened to the view
    nGest,       \* user commands since the canvas was mounted
    nPass,       \* render passes since the canvas was mounted
    exports,     \* one record per exportImage call
    files,       \* the files handed to the browser for download
    failures,    \* the export failures reported to the caller
    mode,        \* App: the input mode, 'image' or 'doc'
    textInput,   \* App: the text of the textarea
    state,       \* App: isProcessing, error, mindMapData, imageUrl
    readers,     \* App: the FileReaders that have not fired onload yet
    requests,    \* App: the generation calls that have not settled yet
    nReads,      \* the number of file reads started so far
    nCalls       \* the number of generation calls made so far

vars == <<data, mounted, layout, scene, handlers, bbox, zoomT, gTransform, zoom,
          trans, lastEvent, nGest, nPass, exports, files, failures,
          mode, textInput, state, readers, requests, nReads, nCalls>>

app == <<mode, textInput, state, readers, requests, nReads, nCalls>>

content == <<data, mounted, layout, scene, handlers, bbox>>
exported == <<exports, files, failures>>

Unmounted ==
    /\ data = NoData
    /\ mounted = FALSE
    /\ layout = NoLayout
    /\ scene = <<>>
    /\ handlers = {}
    /\ bbox = NoBBox
    /\ zoomT = Identity
    /\ gTransform = NoTransform
    /\ zoom = 1000
    /\ trans = NoTrans
    /\ lastEvent = "init"
    /\ nGest = 0
    /\ nPass = 0

\* useState (App.tsx lines 11-18): null is NoData for mindMapData and
\* "null" for error and imageUrl.
AppIdle ==
    /\ mode = "image"
    /\ textInput = ""
    /\ state = [isProcessing |-> FALSE, error |-> "null", mindMapData |-> NoData,
                imageUrl |-> "null"]
    /\ readers = {}
    /\ requests = {}
    /\ nReads = 0
    /\ nCalls = 0

Init ==
    /\ Unmounted
    /\ exports = <<>>
    /\ files = <<>>
    /\ failures = {}
    /\ AppIdle

\* The body of the effect (lines 84-220) for the data t, with b the box of
\* the new group's content.
RenderPass(t, b) ==
    /\ data' = t
    /\ layout' = Layout(t)
    /\ scene' = AppendG(RemoveAll(scene), Layout(t))
    /\ handlers' = CallZoom(handlers, t)
    /\ bbox' = b
    /\ gTransform' = NoTransform
    /\ trans' = Transition("zoomBehavior", zoomT, FitTransform(getBBox(b, NoTransform)))
    /\ lastEvent' = "render"
    /\ nPass' = nPass + 1

\* The component mounts: a fresh svg element and fresh React state.
MountCanvas(t, b) ==
    /\ ~mounted
    /\ mounted' = TRUE
    /\ RenderPass(t, b)
    /\ UNCHANGED <<zoomT, zoom, nGest, exported>>

\* The data prop changes identity: the cleanup of the old effect, then the
\* new effect, on the same svg element.
RerenderCanvas(t, b) ==
    /\ mounted
    /\ RenderPass(t, b)
    /\ UNCHANGED <<mounted, zoomT, zoom, nGest, exported>>

\* The canvas under a parent that is not modelled: it mounts with any data.
Mount(t, b) ==
    /\ MountCanvas(t, b)
    /\ UNCHANGED app

\* The canvas under a parent that is not modelled: it is handed other data.
Rerender(t, b) ==
    /\ t # data
    /\ nPass < MaxPasses
    /\ RerenderCanvas(t, b)
    /\ UNCHANGED app

\* The component unmounts: the cleanup runs and the svg element, with its
\* listeners, its __zoom and its transition, is dropped.
UnmountCanvas ==
    /\ mounted
    /\ mounted' = FALSE
    /\ data' = NoData
    /\ layout' = NoLayout
    /\ scene' = RemoveAll(scene)
    /\ handlers' = {}
    /\ bbox' = NoBBox
    /\ zoomT' = Identity
    /\ gTransform' = NoTransform
    /\ zoom' = 1000
    /\ trans' = NoTrans
    /\ lastEvent' = "init"
    /\ nGest' = 0
    /\ nPass' = 0
    /\ UNCHANGED exported

\* The canvas under a parent that is not modelled: it is unmounted.
Unmount ==
    /\ UnmountCanvas
    /\ UNCHANGED app

\* The "zoom" listener of zoomBehavior: g.attr("transform", ..); setZoom(k)
Listener(t) ==
    /\ gTransform' = t
    /\ zoom' = t.k

\* A zoom event of the behaviour `via`: only zoomBehavior has a listener.
Emit(via, t) ==
    IF via = "zoomBehavior" THEN Listener(t) ELSE UNCHANGED <<gTransform, zoom>>

\* d3-zoom's wheeled(): the scale is clamped to the extent, a step that
\* leaves it unchanged is ignored, otherwise the running transition is
\* interrupted and the pointer's point stays fixed.
Wheel(f) ==
    LET k1 == ClampScale((zoomT.k * f[1]) \div f[2])
        t1 == [k |-> k1,
               x |-> PX - ((PX - zoomT.x) * k1) \div zoomT.k,
               y |-> PY - ((PY - zoomT.y) * k1) \div zoomT.k]
    IN  /\ mounted
        /\ nGest < MaxGestures
        /\ nGest' = nGest + 1
        /\ k1 # zoomT.k
        /\ Followed(t1)
        /\ zoomT' = t1
        /\ Emit("zoomBehavior", t1)
        /\ trans' = NoTrans
        /\ lastEvent' = "wheel"
        /\ UNCHANGED <<content, nPass, exported, app>>

\* d3-zoom's mousedowned() and mousemoved(): the running transition is
\* interrupted and the transform is translated, at the scale it has.
Drag(d) ==
    LET t1 == [zoomT EXCEPT !.x = @ + d[1], !.y = @ + d[2]]
    IN  /\ mounted
        /\ nGest < MaxGestures
        /\ nGest' = nGest + 1
        /\ Followed(t1)
        /\ zoomT' = t1
        /\ Emit("zoomBehavior", t1)
        /\ trans' = NoTrans
        /\ lastEvent' = "drag"
        /\ UNCHANGED <<content, nPass, exported, app>>

\* A mouse press released without a move: mousedowned() interrupts the
\* running transition and no zoom event follows.
Press ==
    /\ mounted
    /\ trans # NoTrans
    /\ nGest < MaxGestures
    /\ nGest' = nGest + 1
    /\ trans' = NoTrans
    /\ lastEvent' = "press"
    /\ UNCHANGED <<zoomT, gTransform, zoom>>
    /\ UNCHANGED <<content, nPass, exported, app>>

\* One intermediate frame of the running transition.
TransitionFrame ==
    /\ trans # NoTrans
    /\ \E t \in interpolateZoom(trans.from, trans.to) :
          /\ Followed(t)
          /\ zoomT' = t
          /\ Emit(trans.via, t)
    /\ lastEvent' = "frame"
    /\ UNCHANGED <<trans, nGest>>
    /\ UNCHANGED <<content, nPass, exported, app>>

\* The last frame of the transition (t = 1): exactly the target.
TransitionEnd ==
    /\ trans # NoTrans
    /\ zoomT' = trans.to
    /\ Emit(trans.via, trans.to)
    /\ trans' = NoTrans
    /\ lastEvent' = IF trans.via = "zoomBehavior" THEN "fitEnd" ELSE "resetEnd"
    /\ UNCHANGED nGest
    /\ UNCHANGED <<content, nPass, exported, app>>

\* resetView (lines 227-236): a transition to the fixed transform, called on
\* a zoom behaviour made on the spot.
resetView ==
    /\ mounted
    /\ nGest < MaxGestures
    /\ nGest' = nGest + 1
    /\ trans' = Transition("detached", zoomT, ResetTransform)
    /\ lastEvent' = "resetStart"
    /\ UNCHANGED <<zoomT, gTransform, zoom>>
    /\ UNCHANGED <<content, nPass, exported, app>>

Next ==
    \/ \E t \in SampleTrees, b \in BBoxes : Mount(t, b)
    \/ \E t \in SampleTrees, b \in BBoxes : Rerender(t, b)
    \/ Unmount
    \/ \E f \in WheelFactors : Wheel(f)
    \/ \E d \in DragDeltas : Drag(d)
    \/ Press
    \/ TransitionFrame
    \/ TransitionEnd
    \/ resetView

Spec == Init /\ [][Next]_vars

\* d3's timer keeps running a transition until it ends or is interrupted.
SpecFair == Spec /\ WF_vars(TransitionEnd)

\* The layout specification: the component is about to mount with any tree
\* of at most MaxNodes nodes, and mounts.
InitLayout ==
    /\ data \in AllTrees
    /\ mounted = FALSE
    /\ layout = NoLayout
    /\ scene = <<>>
    /\ handlers = {}
    /\ bbox = NoBBox
    /\ zoomT = Identity
    /\ gTransform = NoTransform
    /\ zoom = 1000
    /\ trans = NoTrans
    /\ lastEvent = "init"
    /\ nGest = 0
    /\ nPass = 0
    /\ exports = <<>>
    /\ files = <<>>
    /\ failures = {}
    /\ AppIdle

MountGiven == \E b \in BBoxes : Mount(data, b)

NextLayout == MountGiven

SpecLayout == InitLayout /\ [][NextLayout]_vars

\* exportImage (lines 21-81), up to img.src = url.  getContext('2d') may
\* return null (ctxOk = FALSE): the function then returns and nothing
\* follows.  Each record keeps what the call read and built, and, for the
\* claims, the diagram and the live transform it was called under.
exportImage(ctxOk) ==
    /\ mounted
    /\ Len(exports) < MaxExports
    /\ exports' = Append(exports,
          [pc |-> IF ctxOk THEN "decoding" ELSE "returned",
           steps |-> SyncSteps,
           geometry |-> ExportGeometry(getBBox(bbox, gTransform)),
           of |-> data, box |-> bbox, live |-> gTransform])
    /\ UNCHANGED <<files, failures>>
    /\ UNCHANGED <<content, zoomT, gTransform, zoom, trans, lastEvent, nGest, nPass, app>>

\* The image decodes and img.onload runs: fill, scale, drawImage, toDataURL,
\* and the click on the download link.
DecodeOk(i) ==
    /\ i \in 1..Len(exports)
    /\ exports[i].pc = "decoding"
    /\ exports' = [exports EXCEPT ![i] = Loaded(exports[i])]
    /\ files' = Append(files, [export |-> i, width |-> exports[i].geometry.canvasW,
                               height |-> exports[i].geometry.canvasH])
    /\ UNCHANGED failures
    /\ UNCHANGED <<content, zoomT, gTransform, zoom, trans, lastEvent, nGest, nPass, app>>

\* The image fails to decode: no onerror handler is set, the export ends.
DecodeError(i) ==
    /\ i \in 1..Len(exports)
    /\ exports[i].pc = "decoding"
    /\ exports' = [exports EXCEPT ![i].pc = "dropped"]
    /\ UNCHANGED <<files, failures>>
    /\ UNCHANGED <<content, zoomT, gTransform, zoom, trans, lastEvent, nGest, nPass, app>>

\* The boxes of the two sample trees in the export specification: the root
\* pill for the lone root, the tall box for the other.
ExportBox(t) ==
    IF t.n = 1 THEN [x |-> -75, y |-> -28, width |-> 150, height |-> 56]
    ELSE [x |-> -100, y |-> -900, width |-> 400, height |-> 2000]

\* The export specification: a canvas that is mounted, fitted and panned,
\* and exported from.
NextExport ==
    \/ \E t \in SampleTrees : Mount(t, ExportBox(t))
    \/ Unmount
    \/ TransitionEnd
    \/ \E d \in {<<1000, 0>>} : Drag(d)
    \/ \E ok \in BOOLEAN : exportImage(ok)
    \/ \E i \in 1..MaxExports : DecodeOk(i)
    \/ \E i \in 1..MaxExports : DecodeError(i)

SpecExport == Init /\ [][NextExport]_vars

\* ------------------------------------------------------------------ App
\* The texts the textarea or a document file can hold: nothing, white
\* space only, and a document.
Texts == {"", " ", "doc"}

\* String.prototype.trim()
Trim(x) == IF x = " " THEN "" ELSE x

Modes == {"image", "doc"}

\* The idle input UI (App.tsx line 113) is on screen: the mode buttons, the
\* textarea, the submit button and the hidden file input exist only then.
InputShown == state.mindMapData = NoData /\ ~state.isProcessing

canvasVars == <<content, zoomT, gTransform, zoom, trans, lastEvent, nGest, nPass>>

\* <MindMapCanvas data={state.mindMapData} /> (App.tsx line 241) after a
\* setState that makes mindMapData the value d: the canvas is mounted,
\* handed the new object, unmounted, or left alone.  A generation call
\* resolves to a freshly parsed object, so a mounted canvas always sees a
\* new identity.
CanvasShows(d) ==
    IF d = NoData
    THEN IF mounted THEN UnmountCanvas ELSE UNCHANGED <<canvasVars, exported>>
    ELSE IF mounted THEN RerenderCanvas(d, ExportBox(d))
         ELSE MountCanvas(d, ExportBox(d))

\* Calling extractMindMapFromImage / generateMindMapFromText: getAIInstance
\* throws before anything is sent when no API key is configured (sent =
\* FALSE, the promise is already rejected); otherwise generateContent is
\* awaited and the request is in flight until it settles.
StartRequest(kind, keyed) ==
    /\ nCalls < MaxCalls
    /\ nCalls' = nCalls + 1
    /\ requests' = requests \cup {[id |-> nCalls + 1, kind |-> kind, sent |-> keyed]}

\* The requests that are in flight.
InFlight == {q \in requests : q.sent}

\* onClick={() => setMode(m)} (App.tsx lines 117-129)
setMode(m) ==
    /\ InputShown
    /\ m # mode
    /\ mode' = m
    /\ UNCHANGED <<textInput, state, readers, requests, nReads, nCalls>>
    /\ UNCHANGED <<canvasVars, exported>>

\* onChange={(e) => setTextInput(e.target.value)} (App.tsx line 160)
setTextInput(x) ==
    /\ InputShown
    /\ mode = "doc"
    /\ x # textInput
    /\ textInput' = x
    /\ UNCHANGED <<mode, state, readers, requests, nReads, nCalls>>
    /\ UNCHANGED <<canvasVars, exported>>

\* handleTextSubmit (App.tsx lines 24-33), up to the await.  The button
\* exists in doc mode of the input UI and is disabled for blank text.
handleTextSubmit(keyed) ==
    /\ InputShown
    /\ mode = "doc"
    /\ Trim(textInput) # ""
    /\ state' = [state EXCEPT !.isProcessing = TRUE, !.error = "null",
                              !.mindMapData = NoData]
    /\ StartRequest("text", keyed)
    /\ CanvasShows(NoData)
    /\ UNCHANGED <<mode, textInput, readers, nReads>>

\* handleFileUpload (App.tsx lines 36-62): a file was chosen in the hidden
\* input; a FileReader is started with the handler of the current mode.
handleFileUpload ==
    /\ InputShown
    /\ nReads < MaxReads
    /\ nReads' = nReads + 1
    /\ readers' = readers \cup {[id |-> nReads + 1, mode |-> mode]}
    /\ UNCHANGED <<mode, textInput, state, requests, nCalls>>
    /\ UNCHANGED <<canvasVars, exported>>

\* reader.onload of the image mode (App.tsx lines 43-52), up to the await.
ImageRead(r, keyed) ==
    /\ r \in readers
    /\ r.mode = "image"
    /\ readers' = readers \ {r}
    /\ state' = [state EXCEPT !.imageUrl = "base64", !.isProcessing = TRUE,
                              !.error = "null", !.mindMapData = NoData]
    /\ StartRequest("image", keyed)
    /\ CanvasShows(NoData)
    /\ UNCHANGED <<mode, textInput, nReads>>

\* reader.onload of the doc mode (App.tsx lines 56-59)
TextRead(r, x) ==
    /\ r \in readers
    /\ r.mode = "doc"
    /\ readers' = readers \ {r}
    /\ textInput' = x
    /\ UNCHANGED <<mode, state, requests, nReads, nCalls>>
    /\ UNCHANGED <<canvasVars, exported>>

\* The awaited call resolves (App.tsx lines 29 and 48).
RequestDone(q, t) ==
    /\ q \in InFlight
    /\ requests' = requests \ {q}
    /\ state' = [state EXCEPT !.mindMapData = t, !.isProcessing = FALSE]
    /\ CanvasShows(t)
    /\ UNCHANGED <<mode, textInput, readers, nReads, nCalls>>

\* The awaited call rejects (App.tsx lines 30-32 and 49-51).
RequestFailed(q) ==
    /\ q \in requests
    /\ requests' = requests \ {q}
    /\ state' = [state EXCEPT !.isProcessing = FALSE, !.error = "message"]
    /\ UNCHANGED <<mode, textInput, readers, nReads, nCalls>>
    /\ UNCHANGED <<canvasVars, exported>>

\* reset (App.tsx lines 64-67), behind the header button shown with a
\* diagram (line 82).
reset ==
    /\ state.mindMapData # NoData
    /\ state' = [isProcessing |-> FALSE, error |-> "null", mindMapData |-> NoData,
                 imageUrl |-> "null"]
    /\ textInput' = ""
    /\ CanvasShows(NoData)
    /\ UNCHANGED <<mode, readers, requests, nReads, nCalls>>

NextApp ==
    \/ \E m \in Modes : setMode(m)
    \/ \E x \in Texts : setTextInput(x)
    \/ \E keyed \in BOOLEAN : handleTextSubmit(keyed)
    \/ handleFileUpload
    \/ \E r \in readers, keyed \in BOOLEAN : ImageRead(r, keyed)
    \/ \E r \in readers, x \in Texts : TextRead(r, x)
    \/ \E q \in requests, t \in SampleTrees : RequestDone(q, t)
    \/ \E q \in requests : RequestFailed(q)
    \/ reset

SpecApp == Init /\ [][NextApp]_vars

\* ------------------------------------------------------ layout claims
\* The root's direct children, in their original order.
RootKids == Kids(data, 1)
ExplicitLeft == {c \in Range(RootKids) : data.side[c] = "left"}

\* s lists its members in the original (ascending) order of the children.
InOriginalOrder(s) == \A i, j \in 1..Len(s) : i < j => s[i] < s[j]

\* The top-level branch (child of the root) a non-root node lies in.
RECURSIVE Branch(_, _)
Branch(t, i) == IF t.parent[i] = 1 THEN i ELSE Branch(t, t.parent[i])

\* C1: the side partition puts every child of the root on exactly one side
\* and keeps the original order within each side; when no child is marked
\* 'left' and there are n > 3 children, the left side is exactly the first
\* ceil(n/2) of them; otherwise the left side is exactly the children
\* marked 'left' (no rebalancing).
C1_SidePartition ==
    mounted =>
        LET l == layout.leftSideNodes
            r == layout.rightSideNodes
            n == Len(RootKids)
        IN  /\ Range(l) \cup Range(r) = Range(RootKids)
            /\ Range(l) \cap Range(r) = {}
            /\ Len(l) + Len(r) = n
            /\ InOriginalOrder(l) /\ InOriginalOrder(r)
            /\ IF ExplicitLeft = {} /\ n > 3
               THEN /\ 2 * Len(l) \in {n, n + 1}
                    /\ \A a \in Range(l), b \in Range(r) : a < b
               ELSE Range(l) = ExplicitLeft

\* C1 witness: five unmarked children were rebalanced three to two.
C1_Witness ==
    /\ mounted
    /\ ExplicitLeft = {}
    /\ Len(RootKids) = 5
    /\ Len(layout.leftSideNodes) = 3
    /\ Len(layout.rightSideNodes) = 2

\* C2: the merged node list has exactly one node of depth 0, as many
\* entries as the tree has nodes, and every node of the tree exactly once.
C2_MergedNodes ==
    mounted =>
        LET a == layout.allNodes
        IN  /\ Cardinality({j \in 1..Len(a) : a[j].depth = 0}) = 1
            /\ Len(a) = data.n
            /\ \A i \in 1..data.n : Cardinality({j \in 1..Len(a) : a[j].id = i}) = 1

\* C2 witness: a tree with branches on both sides and a grandchild was merged.
C2_Witness ==
    /\ mounted
    /\ Len(layout.leftSideNodes) > 0
    /\ Len(layout.rightSideNodes) > 0
    /\ \E j \in 1..Len(layout.allNodes) : layout.allNodes[j].depth = 2

\* C3: after mirroring, every non-root node of a left-side branch has
\* along <= 0, every non-root node of a right-side branch has along >= 0,
\* and the roots of both half-layouts sit at the origin (0, 0).
C3_Mirrored ==
    mounted =>
        /\ \A h \in {layout.rootR, layout.rootL, layout.allNodes} :
              \A j \in 1..Len(h) :
                 h[j].depth > 0 =>
                    /\ Branch(data, h[j].id) \in Range(layout.leftSideNodes) => h[j].y <= 0
                    /\ Branch(data, h[j].id) \in Range(layout.rightSideNodes) => h[j].y >= 0
        /\ layout.originR = [along |-> 0, across |-> 0]
        /\ layout.originL = layout.originR
        /\ layout.rootR[1].depth = 0 /\ layout.rootL[1].depth = 0

\* C3 witness: a left-side node of depth 2 lies left of the root and a
\* right-side node lies right of it.
C3_Witness ==
    /\ mounted
    /\ \E j \in 1..Len(layout.allNodes) :
          /\ layout.allNodes[j].depth = 2
          /\ Branch(data, layout.allNodes[j].id) \in Range(layout.leftSideNodes)
          /\ layout.allNodes[j].y < 0
    /\ \E j \in 1..Len(layout.allNodes) :
          /\ layout.allNodes[j].depth = 1
          /\ layout.allNodes[j].y > 0

\* The half-layout an edge was taken from.
HalfOf(e) == IF e.half = "R" THEN layout.rootR ELSE layout.rootL

\* The position of the node `id` in the hierarchy h: its depth-axis
\* coordinate and its sibling-axis coordinate.  The latter is known for a
\* root (origin.across); a non-root node is one object, shared by its
\* half-layout and the merged list, and its id stands for the coordinate
\* d3 gave it.
PositionIn(h, id, origin) ==
    LET j == CHOOSE j \in 1..Len(h) : h[j].id = id
    IN  [along |-> h[j].y, across |-> IF id = 1 THEN origin.across ELSE id]

OriginOf(e) == IF e.half = "R" THEN layout.originR ELSE layout.originL

\* C11: the merged edge list has exactly N - 1 edges; every non-root node of
\* the merged node list is the child end of exactly one edge; each edge
\* joins a parent at depth d to a child at depth d + 1, the parent being the
\* child's parent in the tree, and both ends lie at positions occupied by
\* nodes of the merged list; no edge joins the root to the root; a root
\* with no children gives one node and no edges.
C11_MergedEdges ==
    mounted =>
        LET a == layout.allNodes
            e == layout.allLinks
            Occupied(pos, id, depth) ==
                \E j \in 1..Len(a) :
                    /\ a[j].id = id
                    /\ a[j].depth = depth
                    /\ PositionIn(a, id, layout.originR) = pos
        IN  /\ Len(e) = data.n - 1
            /\ \A j \in 1..Len(a) :
                  a[j].depth > 0 =>
                     Cardinality({i \in 1..Len(e) : e[i].target = a[j].id}) = 1
            /\ \A i \in 1..Len(e) :
                  /\ e[i].tdepth = e[i].sdepth + 1
                  /\ e[i].source = data.parent[e[i].target]
                  /\ ~(e[i].sdepth = 0 /\ e[i].tdepth = 0)
                  /\ e[i].source # e[i].target
                  /\ Occupied(PositionIn(HalfOf(e[i]), e[i].source, OriginOf(e[i])),
                              e[i].source, e[i].sdepth)
                  /\ Occupied(PositionIn(HalfOf(e[i]), e[i].target, OriginOf(e[i])),
                              e[i].target, e[i].tdepth)
            /\ data.n = 1 => Len(a) = 1 /\ e = <<>>

\* C11 witness: a tree with a left-side branch that has a child of its own
\* and a right-side branch was merged: the left half contributes an edge
\* from the root and an edge between two non-root nodes.
C11_Witness ==
    /\ mounted
    /\ Len(layout.rightSideNodes) > 0
    /\ \E i, j \in 1..Len(layout.allLinks) :
          /\ layout.allLinks[i].half = "L" /\ layout.allLinks[i].sdepth = 0
          /\ layout.allLinks[j].half = "L" /\ layout.allLinks[j].sdepth = 1


\* ---------------------------------------------------- viewport claims
ScaleInExtent(k) == ScaleMin <= k /\ k <= ScaleMax

\* C4: in every reachable state the scale of the view transform (the one
\* stored on the svg element, the one applied to the scene group and the
\* one displayed) lies in [0.01, 10].
C4_ScaleAlwaysInExtent ==
    mounted =>
        /\ ScaleInExtent(zoomT.k)
        /\ gTransform # NoTransform => ScaleInExtent(gTransform.k)
        /\ ScaleInExtent(zoom)

\* The auto-fit transform of the rendered diagram, as the claim states it:
\* scale = clamp(0.9 / max(boxWidth/viewportWidth, boxHeight/viewportHeight),
\* 0.05, 1.0), and a translation that maps the centre of the box to the
\* centre of the viewport (to within the pixel the quotients floor away).
ViewIsFit ==
    LET raw == (900 * ViewportW * ViewportH)
                   \div Max(bbox.width * ViewportH, bbox.height * ViewportW)
        k == IF raw < 50 THEN 50 ELSE IF raw > 1000 THEN 1000 ELSE raw
    IN  /\ zoomT.k = k
        /\ Abs(2000 * (zoomT.x - PX) + k * (2 * bbox.x + bbox.width)) < 2000
        /\ Abs(2000 * (zoomT.y - PY) + k * (2 * bbox.y + bbox.height)) < 2000
        /\ gTransform = zoomT
        /\ zoom = k

Interrupted == lastEvent \in {"wheel", "drag", "press", "resetStart"}

C8_ResetViewApplies ==
    lastEvent = "resetEnd" =>
        /\ zoomT = [k |-> 500, x |-> ViewportW \div 2, y |-> ViewportH \div 2]
        /\ gTransform = zoomT
        /\ zoom = 500

\* The transform the scene group is drawn with: a group without a
\* transform attribute is drawn untransformed.
Applied == IF gTransform = NoTransform THEN Identity ELSE gTransform

\* C13: in every settled state (no transition running) the transform applied
\* to the scene group and the zoom value displayed both equal the zoom
\* transform stored on the svg element, from which the next gesture starts.
C13_ViewCopiesAgree ==
    (mounted /\ trans = NoTrans) =>
        /\ Applied = zoomT
        /\ zoom = zoomT.k

\* C10: after any sequence of render passes and unmounts the scene holds
\* exactly the nodes and edges of the most recently rendered tree, nothing
\* of earlier passes, and exactly one zoom behaviour (the current pass's) is
\* bound to the svg; nothing is left once the component is unmounted.
C10_SceneIsCurrent ==
    /\ mounted =>
          /\ Len(scene) = 1
          /\ Len(scene[1].nodes) = data.n
          /\ {scene[1].nodes[j].id : j \in 1..Len(scene[1].nodes)} = 1..data.n
          /\ Len(scene[1].links) = Cardinality(2..data.n)
          /\ {<<scene[1].links[j].source, scene[1].links[j].target>> :
                 j \in 1..Len(scene[1].links)}
               = {<<data.parent[i], i>> : i \in 2..data.n}
          /\ handlers = {data}
    /\ ~mounted => scene = <<>> /\ handlers = {}

\* C10 witness: a second render pass replaced the lone root by the four-node
\* tree.
C10_Witness ==
    /\ mounted
    /\ nPass = 2
    /\ data.n = 4
    /\ Len(scene) = 1

\* ------------------------------------------------------ export claims
FilesOf(i) == {j \in 1..Len(files) : files[j].export = i}

\* C5: every exportImage call that has ended has either emitted a file or
\* reported a failure, never neither and never both.
C5_FileOrFailure ==
    \A i \in 1..Len(exports) :
        exports[i].pc # "decoding" => ((FilesOf(i) # {}) # (i \in failures))

ExportOrder ==
    <<"bbox", "clone", "serialize", "decode", "composite", "encode", "download">>

IsPrefix(s, t) == Len(s) <= Len(t) /\ SubSeq(t, 1, Len(s)) = s

\* C6: the steps of every export run in the order bounding box, clone,
\* serialization, decode, composite, encode, download; a file is emitted
\* only by an export whose decode completed, and at most one per call.
C6_ExportOrder ==
    \A i \in 1..Len(exports) :
        /\ IsPrefix(exports[i].steps, ExportOrder)
        /\ Cardinality(FilesOf(i)) <= 1
        /\ FilesOf(i) # {} <=> exports[i].steps = ExportOrder
        /\ exports[i].pc \in {"decoding", "returned", "dropped"} =>
              exports[i].steps = SubSeq(ExportOrder, 1, 3)

\* C6 witness: one export has downloaded its file after its decode, another
\* lost its decode and emitted nothing.
C6_Witness ==
    \E i, j \in 1..Len(exports) :
        /\ exports[i].pc = "done" /\ Cardinality(FilesOf(i)) = 1
        /\ exports[j].pc = "dropped" /\ FilesOf(j) = {}

\* C9: an export's logical size is the content size plus 100, its pixel
\* size twice that, and its offset puts the content box's top-left corner
\* at (50, 50), whatever the live transform; two exports of one rendered
\* diagram agree on all of them.
C9_ExportIgnoresView ==
    /\ \A i \in 1..Len(exports) :
          LET e == exports[i]
          IN  /\ e.geometry.width = e.box.width + 100
              /\ e.geometry.height = e.box.height + 100
              /\ e.geometry.canvasW = 2 * e.geometry.width
              /\ e.geometry.canvasH = 2 * e.geometry.height
              /\ e.box.x + e.geometry.tx = 50
              /\ e.box.y + e.geometry.ty = 50
              /\ \A j \in FilesOf(i) :
                    /\ files[j].width = e.geometry.canvasW
                    /\ files[j].height = e.geometry.canvasH
    /\ \A i, j \in 1..Len(exports) :
          (exports[i].of = exports[j].of /\ exports[i].box = exports[j].box)
              => exports[i].geometry = exports[j].geometry

\* C9 witness: one diagram was exported twice, once fitted at scale 0.27
\* and once panned away from there, and both files were emitted.
C9_Witness ==
    \E i, j \in 1..Len(exports) :
        /\ exports[i].of = exports[j].of
        /\ exports[i].box = exports[j].box
        /\ exports[i].live.k = 270
        /\ exports[j].live.k = 270
        /\ exports[i].live.x # exports[j].live.x
        /\ FilesOf(i) # {} /\ FilesOf(j) # {}

\* --------------------------------------------------------- App claims
\* C12: in every reachable state of App at most one diagram-generation
\* request is in flight: no request is started while an earlier one is
\* still pending.
C12_OneRequestInFlight == Cardinality(InFlight) <= 1
====
